---- MODULE Spec2Model ----
(***************************************************************************)
(* Model of src/routes/data_analysis.py: the /upload request handler with  *)
(* its on-disk staging directory, the cleaning pipeline (clean_data), the  *)
(* analyzer (analyze_data), the interpreter (interpret_results) and the    *)
(* chart builder (create_visualizations).                                  *)
(*                                                                         *)
(* Three specifications share the module:                                  *)
(*   Spec          two /upload requests whose steps interleave             *)
(*   SpecPipeline  clean_data -> analyze_data -> interpret_results on one  *)
(*                 Dataset                                                 *)
(*   SpecViz       create_visualizations on one cleaned Dataset            *)
(***************************************************************************)
EXTENDS Integers, Sequences, FiniteSets, TLC

VARIABLES
  pc, req, disk, df, resp,           \* the /upload handler
  stage, dataset, cleaned_df, cleaning_report, analysis, interpretations,
                                     \* the pipeline on one Dataset
  vstage, vdf, visualizations        \* the chart builder

hvars == <<pc, req, disk, df, resp>>

pvars == <<stage, dataset, cleaned_df, cleaning_report, analysis, interpretations>>

zvars == <<vstage, vdf, visualizations>>

vars == <<hvars, pvars, zvars>>

(***************************************************************************)
(* Filenames are sequences of one-character strings.                       *)
(***************************************************************************)
MaxStemLen == 1

StemChars == {"a", "#", ".", "/"}

Exts ==
  { <<>>,
    <<".", "c", "s", "v">>,
    <<".", "C", "S", "V">>,
    <<".", "x", "l", "s">>,
    <<".", "x", "l", "s", "x">>,
    <<".", "t", "x", "t">> }

Stems == UNION { [1..n -> StemChars] : n \in 0..MaxStemLen }

Filenames == { s \o e : s \in Stems, e \in Exts }

ALLOWED_EXTENSIONS ==
  { <<"c", "s", "v">>, <<"x", "l", "s">>, <<"x", "l", "s", "x">> }

\* str.lower() on one character
LowerChar(c) ==
  CASE c = "C" -> "c"
    [] c = "S" -> "s"
    [] c = "V" -> "v"
    [] c = "X" -> "x"
    [] c = "L" -> "l"
    [] c = "T" -> "t"
    [] c = "A" -> "a"
    [] OTHER -> c

Lower(s) == [i \in 1..Len(s) |-> LowerChar(s[i])]

HasDot(s) == \E i \in 1..Len(s) : s[i] = "."

\* position of the last "." of s (0 when there is none)
LastDot(s) ==
  IF HasDot(s)
    THEN CHOOSE i \in 1..Len(s) : s[i] = "." /\ \A j \in (i+1)..Len(s) : s[j] # "."
    ELSE 0

\* s.rsplit('.', 1): one piece when s has no dot, else the text before and
\* the text after the last dot
RSplit(s) ==
  IF HasDot(s)
    THEN << SubSeq(s, 1, LastDot(s) - 1), SubSeq(s, LastDot(s) + 1, Len(s)) >>
    ELSE << s >>

\* the allow-list test without its extension check
allowed_file_AnyExtension(filename) == HasDot(filename)

allowed_file(filename) ==
  HasDot(filename) /\ Lower(RSplit(filename)[2]) \in ALLOWED_EXTENSIONS

(***************************************************************************)
(* werkzeug.utils.secure_filename, as called on line 241: path separators  *)
(* become spaces, whitespace-separated words are joined with "_", every    *)
(* character outside [A-Za-z0-9_.-] is removed, and leading and trailing   *)
(* "." and "_" are stripped.  (Its first step, dropping the characters     *)
(* that have no ASCII form, acts like the removal of "#" here.)            *)
(***************************************************************************)
AsciiLetters ==
  {"a", "c", "s", "v", "x", "l", "t", "A", "C", "S", "V", "X", "L", "T"}

FilenameSafe(c) == c \in AsciiLetters \cup {"_", ".", "-"}

ReplaceSeparators(s) == [i \in 1..Len(s) |-> IF s[i] = "/" THEN " " ELSE s[i]]

RECURSIVE LStripChars(_, _)
LStripChars(s, cs) ==
  IF s # <<>> /\ Head(s) \in cs THEN LStripChars(Tail(s), cs) ELSE s

RECURSIVE RStripChars(_, _)
RStripChars(s, cs) ==
  IF s # <<>> /\ s[Len(s)] \in cs
    THEN RStripChars(SubSeq(s, 1, Len(s) - 1), cs)
    ELSE s

StripChars(s, cs) == RStripChars(LStripChars(s, cs), cs)

\* "_".join(s.split())
RECURSIVE JoinWords(_)
JoinWords(s) ==
  IF s = <<>> THEN <<>>
  ELSE IF Head(s) = " "
    THEN LET t == LStripChars(s, {" "})
         IN  IF t = <<>> THEN <<>> ELSE <<"_">> \o JoinWords(t)
    ELSE <<Head(s)>> \o JoinWords(Tail(s))

SplitJoin(s) == JoinWords(LStripChars(s, {" "}))

secure_filename(filename) ==
  StripChars(SelectSeq(SplitJoin(ReplaceSeparators(filename)), FilenameSafe),
             {".", "_"})

(***************************************************************************)
(* The /upload handler.  A request carries either no `file` field or a     *)
(* filename and a body; the body is CSV text or an Excel workbook, tagged  *)
(* with the request that sent it.  disk is the content of UPLOAD_FOLDER.   *)
(***************************************************************************)
Requests == {"r1", "r2"}

Kinds == {"csv", "excel"}

NoFile == [hasFile |-> FALSE, filename |-> <<>>, kind |-> "csv"]

Inputs ==
  {NoFile} \cup [hasFile : {TRUE}, filename : Filenames, kind : Kinds]

Body(r, in) == [owner |-> r, kind |-> in.kind]

NoBody == [owner |-> "none", kind |-> "none"]

NoResp == [status |-> 0, error |-> "", filename |-> <<>>, result |-> NoBody]

ErrorResp(code, msg) ==
  [status |-> code, error |-> msg, filename |-> <<>>, result |-> NoBody]

OkResp(fname, res) ==
  [status |-> 200, error |-> "", filename |-> fname, result |-> res]

\* lines 230-238: the three early returns
Rejection(in) ==
  IF ~in.hasFile THEN "No file provided"
  ELSE IF in.filename = <<>> THEN "No file selected"
  ELSE IF ~allowed_file(in.filename) THEN "File type not allowed"
  ELSE ""

\* line 243: file.save(filepath) creates or overwrites the staged file
Save(d, fname, body) ==
  [n \in DOMAIN d \cup {fname} |-> IF n = fname THEN body ELSE d[n]]

\* line 268: os.remove(filepath)
Remove(d, fname) == [n \in DOMAIN d \ {fname} |-> d[n]]

\* lines 248-251: the parser chosen by the extension of the staged name
Parser(file_ext) == IF file_ext = <<"c", "s", "v">> THEN "csv" ELSE "excel"

\* lines 247-253: the read fails when the staged file is gone or when its
\* content is not what the parser expects
ReadError(d, fname, file_ext) ==
  IF fname \notin DOMAIN d THEN "Error reading file: no such file"
  ELSE IF d[fname].kind # Parser(file_ext) THEN "Error reading file: parse error"
  ELSE ""

\* lines 256-265: clean, analyze, chart and interpret the parsed Dataset;
\* the outcome is a function of the Dataset alone
Pipeline(data) == [owner |-> data.owner, kind |-> "result"]

\* a request arrives with its multipart form
Arrive(r) ==
  /\ pc[r] = "idle"
  /\ \E in \in Inputs : req' = [req EXCEPT ![r] = in]
  /\ pc' = [pc EXCEPT ![r] = "validate"]
  /\ UNCHANGED <<disk, df, resp>>
  /\ UNCHANGED <<pvars, zvars>>

\* lines 230-243
ValidateAndSave(r) ==
  /\ pc[r] = "validate"
  /\ IF Rejection(req[r]) # ""
       THEN /\ resp' = [resp EXCEPT ![r] = ErrorResp(400, Rejection(req[r]))]
            /\ pc' = [pc EXCEPT ![r] = "done"]
            /\ UNCHANGED disk
       ELSE /\ disk' = Save(disk, secure_filename(req[r].filename), Body(r, req[r]))
            /\ pc' = [pc EXCEPT ![r] = "read"]
            /\ UNCHANGED resp
  /\ UNCHANGED <<req, df>>
  /\ UNCHANGED <<pvars, zvars>>

\* lines 246-253, and 279-280 for the IndexError of line 246
ReadStaged(r) ==
  /\ pc[r] = "read"
  /\ LET filename == secure_filename(req[r].filename)
     IN  IF Len(RSplit(filename)) < 2
           THEN /\ resp' = [resp EXCEPT ![r] = ErrorResp(500, "An error occurred")]
                /\ pc' = [pc EXCEPT ![r] = "done"]
                /\ UNCHANGED df
           ELSE IF ReadError(disk, filename, Lower(RSplit(filename)[2])) # ""
             THEN /\ resp' = [resp EXCEPT ![r] =
                       ErrorResp(400, ReadError(disk, filename, Lower(RSplit(filename)[2])))]
                  /\ pc' = [pc EXCEPT ![r] = "done"]
                  /\ UNCHANGED df
             ELSE /\ df' = [df EXCEPT ![r] = disk[filename]]
                  /\ pc' = [pc EXCEPT ![r] = "pipeline"]
                  /\ UNCHANGED resp
  /\ UNCHANGED <<req, disk>>
  /\ UNCHANGED <<pvars, zvars>>

\* lines 256-265
RunPipeline(r) ==
  /\ pc[r] = "pipeline"
  /\ df' = [df EXCEPT ![r] = Pipeline(df[r])]
  /\ pc' = [pc EXCEPT ![r] = "remove"]
  /\ UNCHANGED <<req, disk, resp>>
  /\ UNCHANGED <<pvars, zvars>>

\* lines 268-277, and 279-280 when os.remove finds no file
RemoveStaged(r) ==
  /\ pc[r] = "remove"
  /\ LET filename == secure_filename(req[r].filename)
     IN  IF filename \in DOMAIN disk
           THEN /\ disk' = Remove(disk, filename)
                /\ resp' = [resp EXCEPT ![r] = OkResp(filename, df[r])]
           ELSE /\ resp' = [resp EXCEPT ![r] = ErrorResp(500, "An error occurred")]
                /\ UNCHANGED disk
  /\ pc' = [pc EXCEPT ![r] = "done"]
  /\ UNCHANGED <<req, df>>
  /\ UNCHANGED <<pvars, zvars>>

\* the state of the other two specifications, which Spec leaves alone
PipelineIdle ==
  /\ stage = "off"
  /\ dataset = <<>>
  /\ cleaned_df = <<>>
  /\ cleaning_report = <<>>
  /\ analysis = <<>>
  /\ interpretations = <<>>

VizIdle ==
  /\ vstage = "off"
  /\ vdf = <<>>
  /\ visualizations = <<>>

HandlerIdle ==
  /\ pc = [r \in Requests |-> "off"]
  /\ req = [r \in Requests |-> NoFile]
  /\ disk = <<>>
  /\ df = [r \in Requests |-> NoBody]
  /\ resp = [r \in Requests |-> NoResp]

Init ==
  /\ pc = [r \in Requests |-> "idle"]
  /\ req = [r \in Requests |-> NoFile]
  /\ disk = <<>>
  /\ df = [r \in Requests |-> NoBody]
  /\ resp = [r \in Requests |-> NoResp]
  /\ PipelineIdle
  /\ VizIdle

Next ==
  \/ \E r \in Requests : Arrive(r)
  \/ \E r \in Requests : ValidateAndSave(r)
  \/ \E r \in Requests : ReadStaged(r)
  \/ \E r \in Requests : RunPipeline(r)
  \/ \E r \in Requests : RemoveStaged(r)

Spec == Init /\ [][Next]_vars

(***************************************************************************)
(* Datasets.  A Dataset (a pandas DataFrame) has column names, one dtype   *)
(* per column, row labels (the index) and rows of cells.  A cell is NaN or *)
(* a value: numeric cells hold twice their value, so that the median of an *)
(* even number of whole values is again an integer; text cells hold the    *)
(* rank of their string in string order; temporal cells hold a day number. *)
(***************************************************************************)
NaN == -1

MaxRows == 4

ColNames == <<"A", "B">>

Schemas ==
  { <<"number">>,
    <<"datetime">>,
    <<"number", "number">>,
    <<"number", "object">>,
    <<"object", "number">>,
    <<"number", "datetime">>,
    <<"object", "datetime">> }

\* the text values, in string order
TextOrder == <<"2021-01-01", "Unknown", "a">>

Rank(text) == CHOOSE k \in 1..Len(TextOrder) : TextOrder[k] = text

DateText == Rank("2021-01-01")
Unknown == Rank("Unknown")
PlainText == Rank("a")

NumberVals == {0, 2}
TextVals == {DateText, PlainText}
DateVals == {1}

CellVals(dtype) ==
  CASE dtype = "number" -> NumberVals \cup {NaN}
    [] dtype = "object" -> TextVals \cup {NaN}
    [] dtype = "datetime" -> DateVals \cup {NaN}

AllCellVals == NumberVals \cup TextVals \cup DateVals \cup {NaN}

RowsOf(schema) ==
  { row \in [1..Len(schema) -> AllCellVals] :
      \A j \in 1..Len(schema) : row[j] \in CellVals(schema[j]) }

\* a DataFrame as pd.read_csv / pd.read_excel return it (lines 248-251):
\* the row labels are 0, 1, 2, ...
DataFrame(schema, rows) ==
  [columns |-> SubSeq(ColNames, 1, Len(schema)),
   dtypes  |-> schema,
   index   |-> [i \in 1..Len(rows) |-> i - 1],
   rows    |-> rows]

NRows(d) == Len(d.rows)
NCols(d) == Len(d.columns)

\* df.shape
Shape(d) == <<NRows(d), NCols(d)>>

\* the cells of column j, in row order
Column(d, j) == [i \in 1..NRows(d) |-> d.rows[i][j]]

\* the entries of s at the positions idx (an ascending sequence)
Pick(s, idx) == [k \in 1..Len(idx) |-> s[idx[k]]]

Positions(n) == [i \in 1..n |-> i]

\* the rows at positions idx
TakeRows(d, idx) ==
  [d EXCEPT !.index = Pick(d.index, idx), !.rows = Pick(d.rows, idx)]

\* the columns at positions idx
TakeCols(d, idx) ==
  [d EXCEPT !.columns = Pick(d.columns, idx),
            !.dtypes = Pick(d.dtypes, idx),
            !.rows = [i \in 1..NRows(d) |-> Pick(d.rows[i], idx)]]

\* df.dropna(how='all'): keeps the rows that have a value
dropna_rows(d) ==
  LET keep(i) == \E j \in 1..NCols(d) : d.rows[i][j] # NaN
  IN  TakeRows(d, SelectSeq(Positions(NRows(d)), keep))

\* the column drop forgotten
dropna_columns_Forgotten(d) == d

\* df.dropna(axis=1, how='all'): keeps the columns that have a value
dropna_columns(d) ==
  LET keep(j) == \E i \in 1..NRows(d) : d.rows[i][j] # NaN
  IN  TakeCols(d, SelectSeq(Positions(NCols(d)), keep))

\* df.isnull().sum().sum()
MissingCount(d) ==
  Cardinality({ <<i, j>> \in (1..NRows(d)) \X (1..NCols(d)) : d.rows[i][j] = NaN })

\* df[col].isnull().any()
AnyMissing(d, j) == \E i \in 1..NRows(d) : d.rows[i][j] = NaN

NonMissing(col) == SelectSeq(col, LAMBDA v : v # NaN)

RECURSIVE Insert(_, _)
Insert(v, sorted) ==
  IF sorted = <<>> THEN <<v>>
  ELSE IF v <= Head(sorted) THEN <<v>> \o sorted
  ELSE <<Head(sorted)>> \o Insert(v, Tail(sorted))

RECURSIVE Sort(_)
Sort(s) == IF s = <<>> THEN <<>> ELSE Insert(Head(s), Sort(Tail(s)))

RECURSIVE SumSeq(_)
SumSeq(s) == IF s = <<>> THEN 0 ELSE Head(s) + SumSeq(Tail(s))

\* the mean in place of the median (whole part)
median_AsMean(col) ==
  LET v == NonMissing(col)
  IN  IF v = <<>> THEN NaN ELSE SumSeq(v) \div Len(v)

\* Series.median(): the middle of the sorted non-missing values, the mean of
\* the two middle ones when their number is even; NaN when there is none
median(col) ==
  LET v == Sort(NonMissing(col))
      n == Len(v)
  IN  IF n = 0 THEN NaN
      ELSE IF n % 2 = 1 THEN v[(n + 1) \div 2]
      ELSE (v[n \div 2] + v[n \div 2 + 1]) \div 2

Occurrences(col, v) == Cardinality({ i \in 1..Len(col) : col[i] = v })

\* Series.mode(): the most frequent non-missing values, in ascending order
mode(col) ==
  LET v == NonMissing(col)
      vals == { v[i] : i \in 1..Len(v) }
      top == { x \in vals : \A y \in vals : Occurrences(v, x) >= Occurrences(v, y) }
  IN  Sort(CHOOSE q \in [1..Cardinality(top) -> top] :
             \A a, b \in 1..Cardinality(top) : a # b => q[a] # q[b])

\* Series.fillna(value)
fillna(d, j, value) ==
  [d EXCEPT !.rows = [i \in 1..NRows(d) |->
      [d.rows[i] EXCEPT ![j] = IF d.rows[i][j] = NaN THEN value ELSE d.rows[i][j]]]]

\* lines 42-55, the body executed for one column
FillColumn(d, j) ==
  IF ~AnyMissing(d, j) THEN d
  ELSE IF d.dtypes[j] = "number" THEN fillna(d, j, median(Column(d, j)))
  ELSE IF d.dtypes[j] = "object"
    THEN IF Len(mode(Column(d, j))) > 0
           THEN fillna(d, j, mode(Column(d, j))[1])
           ELSE fillna(d, j, Unknown)
  ELSE d

\* lines 42-55: the two loops touch disjoint columns, each column once
RECURSIVE FillColumns(_, _)
FillColumns(d, j) ==
  IF j > NCols(d) THEN d ELSE FillColumns(FillColumn(d, j), j + 1)

\* df.duplicated(): the row equals an earlier row (missing equals missing)
duplicated(d, i) == \E k \in 1..(i - 1) : d.rows[k] = d.rows[i]

\* keep='last' in place of the default keep='first'
drop_duplicates_KeepLast(d) ==
  TakeRows(d, SelectSeq(Positions(NRows(d)),
                        LAMBDA i : ~\E k \in (i + 1)..NRows(d) : d.rows[k] = d.rows[i]))

\* df.drop_duplicates()
drop_duplicates(d) ==
  TakeRows(d, SelectSeq(Positions(NRows(d)), LAMBDA i : ~duplicated(d, i)))

\* the text values pd.to_numeric parses: none of TextVals is a number
NumericText == {}

\* the text values pd.to_datetime parses
DateLikeText == {DateText}

\* lines 68-80 for one column: with errors='ignore' a conversion that fails
\* on any value returns the column as it was
CoercedDtype(d, j) ==
  LET vals == { d.rows[i][j] : i \in 1..NRows(d) } \ {NaN}
  IN  IF d.dtypes[j] # "object" THEN d.dtypes[j]
      ELSE IF vals \subseteq NumericText THEN "number"
      ELSE IF vals \subseteq DateLikeText THEN "datetime"
      ELSE "object"

ShapeEntry(from, to) == [kind |-> "shape", from |-> from, to |-> to, n |-> 0]
FilledEntry(n) == [kind |-> "filled", from |-> <<>>, to |-> <<>>, n |-> n]
DuplicatesEntry(n) == [kind |-> "duplicates", from |-> <<>>, to |-> <<>>, n |-> n]

(***************************************************************************)
(* clean_data, one action per stage.                                       *)
(***************************************************************************)
\* lines 32-36
DropEmpty ==
  /\ stage = "drop"
  /\ LET initial_shape == Shape(cleaned_df)
         d == dropna_columns(dropna_rows(cleaned_df))
     IN  /\ cleaned_df' = d
         /\ cleaning_report' =
              IF Shape(d) # initial_shape
                THEN Append(cleaning_report, ShapeEntry(initial_shape, Shape(d)))
                ELSE cleaning_report
  /\ stage' = "impute"
  /\ UNCHANGED <<dataset, analysis, interpretations, hvars, zvars>>

\* lines 38-58
Impute ==
  /\ stage = "impute"
  /\ LET missing_before == MissingCount(cleaned_df)
         d == FillColumns(cleaned_df, 1)
     IN  IF missing_before > 0
           THEN /\ cleaned_df' = d
                /\ cleaning_report' =
                     Append(cleaning_report, FilledEntry(missing_before - MissingCount(d)))
           ELSE UNCHANGED <<cleaned_df, cleaning_report>>
  /\ stage' = "dedup"
  /\ UNCHANGED <<dataset, analysis, interpretations, hvars, zvars>>

\* lines 60-64
Deduplicate ==
  /\ stage = "dedup"
  /\ LET duplicates == Cardinality({ i \in 1..NRows(cleaned_df) : duplicated(cleaned_df, i) })
     IN  IF duplicates > 0
           THEN /\ cleaned_df' = drop_duplicates(cleaned_df)
                /\ cleaning_report' = Append(cleaning_report, DuplicatesEntry(duplicates))
           ELSE UNCHANGED <<cleaned_df, cleaning_report>>
  /\ stage' = "coerce"
  /\ UNCHANGED <<dataset, analysis, interpretations, hvars, zvars>>

\* lines 66-82
Coerce ==
  /\ stage = "coerce"
  /\ cleaned_df' =
       [cleaned_df EXCEPT !.dtypes =
          [j \in 1..NCols(cleaned_df) |-> CoercedDtype(cleaned_df, j)]]
  /\ stage' = "analyze"
  /\ UNCHANGED <<dataset, cleaning_report, analysis, interpretations, hvars, zvars>>

(***************************************************************************)
(* analyze_data.  Python dicts keep insertion order, so a dict keyed by    *)
(* column is a sequence of records in column order.  Statistics are kept   *)
(* exact: a mean as sum and count, a standard deviation (ddof = 1) as the  *)
(* fraction num/den of its square, a correlation r by cov, va and vb with  *)
(* r = cov / sqrt(va * vb).                                                *)
(***************************************************************************)
MaxCategories == 20
TopValues == 10
StrongNum == 7
StrongDen == 10

\* df.select_dtypes(include=...).columns, as column positions
ColumnsOfDtype(d, dtype) ==
  SelectSeq(Positions(NCols(d)), LAMBDA j : d.dtypes[j] = dtype)

SumSquares(v) == SumSeq([i \in 1..Len(v) |-> v[i] * v[i]])

SumProducts(v, w) == SumSeq([i \in 1..Len(v) |-> v[i] * w[i]])

\* n * sum(x*y) - sum(x) * sum(y), over the rows where both are present
CoMoment(x, y) ==
  LET both == SelectSeq(Positions(Len(x)), LAMBDA i : x[i] # NaN /\ y[i] # NaN)
      v == Pick(x, both)
      w == Pick(y, both)
  IN  Len(v) * SumProducts(v, w) - SumSeq(v) * SumSeq(w)

\* df[numeric_cols].describe()[col]: count, mean and std
describe(d, j) ==
  LET v == NonMissing(Column(d, j))
      n == Len(v)
  IN  [col   |-> d.columns[j],
       count |-> n,
       mean  |-> [num |-> SumSeq(v), den |-> n],
       std   |-> [defined |-> n > 1,
                  num |-> n * SumSquares(v) - SumSeq(v) * SumSeq(v),
                  den |-> n * (n - 1)]]

\* the first occurrences of the values of col, in row order
RECURSIVE FirstSeen(_)
FirstSeen(col) ==
  IF col = <<>> THEN <<>>
  ELSE LET init == FirstSeen(SubSeq(col, 1, Len(col) - 1))
           last == col[Len(col)]
       IN  IF \E i \in 1..Len(init) : init[i] = last THEN init ELSE Append(init, last)

\* stable insertion of x by descending count
RECURSIVE InsertByCount(_, _)
InsertByCount(x, sorted) ==
  IF sorted = <<>> THEN <<x>>
  ELSE IF x.count > Head(sorted).count THEN <<x>> \o sorted
  ELSE <<Head(sorted)>> \o InsertByCount(x, Tail(sorted))

RECURSIVE SortByCount(_)
SortByCount(s) ==
  IF s = <<>> THEN <<>>
  ELSE InsertByCount(s[Len(s)], SortByCount(SubSeq(s, 1, Len(s) - 1)))

\* Series.value_counts(): the non-missing values with their counts, most
\* frequent first
value_counts(col) ==
  LET seen == FirstSeen(NonMissing(col))
  IN  SortByCount([k \in 1..Len(seen) |->
                     [value |-> seen[k], count |-> Occurrences(col, seen[k])]])

\* s.head(n)
head(s, n) == SubSeq(s, 1, IF Len(s) < n THEN Len(s) ELSE n)

\* len(df[col].unique()): NaN counts as a value
nunique(col) == Cardinality({ col[i] : i \in 1..Len(col) })

\* df[numeric_cols].corr()[a][b]
corr(d, a, b) ==
  LET va == CoMoment(Column(d, a), Column(d, a))
      vb == CoMoment(Column(d, b), Column(d, b))
  IN  [defined |-> NRows(d) > 1 /\ va > 0 /\ vb > 0,
       cov |-> CoMoment(Column(d, a), Column(d, b)),
       va |-> va,
       vb |-> vb]

\* lines 84-114
analyze_data(d) ==
  LET numeric_cols == ColumnsOfDtype(d, "number")
      categorical_cols == ColumnsOfDtype(d, "object")
      eligible == SelectSeq(categorical_cols,
                            LAMBDA j : nunique(Column(d, j)) <= MaxCategories)
  IN  [shape |-> Shape(d),
       columns |-> d.columns,
       dtypes |-> d.dtypes,
       keys |-> {"shape", "columns", "dtypes", "missing_values", "categorical_summary"}
                  \cup (IF Len(numeric_cols) > 0 THEN {"numeric_summary"} ELSE {})
                  \cup (IF Len(numeric_cols) > 1 THEN {"correlations"} ELSE {}),
       numeric_summary |->
         IF Len(numeric_cols) > 0
           THEN [k \in 1..Len(numeric_cols) |-> describe(d, numeric_cols[k])]
           ELSE <<>>,
       missing_values |->
         [j \in 1..NCols(d) |->
            Cardinality({ i \in 1..NRows(d) : d.rows[i][j] = NaN })],
       categorical_summary |->
         [k \in 1..Len(eligible) |->
            [col |-> d.columns[eligible[k]],
             counts |-> head(value_counts(Column(d, eligible[k])), TopValues)]],
       correlations |->
         IF Len(numeric_cols) > 1
           THEN [a \in 1..Len(numeric_cols) |->
                  [col |-> d.columns[numeric_cols[a]],
                   row |-> [b \in 1..Len(numeric_cols) |->
                      [col |-> d.columns[numeric_cols[b]],
                       r |-> corr(d, numeric_cols[a], numeric_cols[b])]]]]
           ELSE <<>>]

Analyze ==
  /\ stage = "analyze"
  /\ analysis' = analyze_data(cleaned_df)
  /\ stage' = "interpret"
  /\ UNCHANGED <<dataset, cleaned_df, cleaning_report, interpretations, hvars, zvars>>

(***************************************************************************)
(* interpret_results.  A sentence is its kind with the columns and values  *)
(* it names; the decimal rendering of the values is not modelled.          *)
(***************************************************************************)
Sentence(kind, cols, vals, pairs) ==
  [kind |-> kind, cols |-> cols, vals |-> vals, pairs |-> pairs]

\* the guard of line 197 taken as std_val >= 0
StdPositive_OrZero(std) == std.defined /\ std.num >= 0

\* line 197: std_val > 0, false for NaN
StdPositive(std) == std.defined /\ std.num > 0

\* line 216: abs(r) > 0.7, false for NaN
IsStrong(r) ==
  /\ r.defined
  /\ r.cov * r.cov * StrongDen * StrongDen > StrongNum * StrongNum * r.va * r.vb

RECURSIVE Flatten(_)
Flatten(ss) == IF ss = <<>> THEN <<>> ELSE Head(ss) \o Flatten(Tail(ss))

\* lines 194-199
MeanStdSentences(summary) ==
  Flatten([k \in 1..Len(summary) |->
    IF StdPositive(summary[k].std)
      THEN << Sentence("mean_std", <<summary[k].col>>,
                       <<summary[k].mean.num, summary[k].mean.den,
                         summary[k].std.num, summary[k].std.den>>, <<>>) >>
      ELSE <<>>])

\* lines 206-208: max() returns the first entry with the largest count
MostCommonSentences(cats) ==
  [k \in 1..Len(cats) |->
     LET values == cats[k].counts
         top == CHOOSE i \in 1..Len(values) :
                  /\ \A m \in 1..Len(values) : values[m].count <= values[i].count
                  /\ \A m \in 1..(i - 1) : values[m].count < values[i].count
     IN  Sentence("most_common", <<cats[k].col>>,
                  <<values[top].value, values[top].count>>, <<>>)]

\* lines 213-217: both loops run over every column of the matrix
StrongCorrelations(correlations) ==
  Flatten([a \in 1..Len(correlations) |->
    Flatten([b \in 1..Len(correlations[a].row) |->
      LET col1 == correlations[a].col
          col2 == correlations[a].row[b].col
          r == correlations[a].row[b].r
      IN  IF col1 # col2 /\ IsStrong(r)
            THEN << [col1 |-> col1, col2 |-> col2, r |-> r] >>
            ELSE <<>>])])

\* lines 174-224
interpret_results(a) ==
  LET total_missing == SumSeq(a.missing_values)
      numeric_cols == [k \in 1..Len(a.numeric_summary) |-> a.numeric_summary[k].col]
      cat_cols == [k \in 1..Len(a.categorical_summary) |-> a.categorical_summary[k].col]
      strong_correlations == StrongCorrelations(a.correlations)
  IN  << Sentence("overview", <<>>, a.shape, <<>>) >>
      \o (IF total_missing > 0
            THEN << Sentence("missing", <<>>, <<total_missing>>, <<>>) >>
            ELSE << Sentence("no_missing", <<>>, <<>>, <<>>) >>)
      \o (IF "numeric_summary" \in a.keys
            THEN << Sentence("numeric_columns", numeric_cols, <<Len(numeric_cols)>>, <<>>) >>
                 \o MeanStdSentences(a.numeric_summary)
            ELSE <<>>)
      \o (IF a.categorical_summary # <<>>
            THEN << Sentence("categorical_columns", cat_cols, <<Len(cat_cols)>>, <<>>) >>
                 \o MostCommonSentences(a.categorical_summary)
            ELSE <<>>)
      \o (IF "correlations" \in a.keys
            THEN IF strong_correlations # <<>>
                   THEN << Sentence("strong_correlations", <<>>, <<>>, strong_correlations) >>
                   ELSE << Sentence("no_strong_correlations", <<>>, <<>>, <<>>) >>
            ELSE <<>>)

Interpret ==
  /\ stage = "interpret"
  /\ interpretations' = interpret_results(analysis)
  /\ stage' = "done"
  /\ UNCHANGED <<dataset, cleaned_df, cleaning_report, analysis, hvars, zvars>>

InitPipeline ==
  /\ stage = "drop"
  /\ \E schema \in Schemas : \E n \in 0..MaxRows :
       \E rows \in [1..n -> RowsOf(schema)] : dataset = DataFrame(schema, rows)
  /\ cleaned_df = dataset
  /\ cleaning_report = <<>>
  /\ analysis = <<>>
  /\ interpretations = <<>>
  /\ HandlerIdle
  /\ VizIdle

NextPipeline ==
  \/ DropEmpty
  \/ Impute
  \/ Deduplicate
  \/ Coerce
  \/ Analyze
  \/ Interpret

SpecPipeline == InitPipeline /\ [][NextPipeline]_vars

(***************************************************************************)
(* create_visualizations.  The charts depend on a cleaned Dataset through  *)
(* the order, dtype and number of distinct values of its columns, so the   *)
(* Dataset is given by these.                                              *)
(***************************************************************************)
MaxVizCols == 6

MaxHistograms == 5
MaxBarCharts == 3

VizColumnKinds ==
  { [dtype |-> "number", nunique |-> 2],
    [dtype |-> "datetime", nunique |-> 2],
    [dtype |-> "object", nunique |-> MaxCategories],
    [dtype |-> "object", nunique |-> MaxCategories + 1] }

VizNames == <<"c1", "c2", "c3", "c4", "c5", "c6", "c7", "c8">>

VizPositions(d, dtype) ==
  SelectSeq(Positions(Len(d)), LAMBDA j : d[j].dtype = dtype)

Chart(type, title, data) == [type |-> type, title |-> title, data |-> data]

\* the eligible columns first, then the limit
BarColumns_FilterThenLimit(d) ==
  head(SelectSeq(VizPositions(d, "object"),
                 LAMBDA j : d[j].nunique <= MaxCategories),
       MaxBarCharts)

\* lines 148-149: the first 3 text columns, of which the eligible are charted
BarColumns(d) ==
  SelectSeq(head(VizPositions(d, "object"), MaxBarCharts),
            LAMBDA j : d[j].nunique <= MaxCategories)

\* lines 116-172
create_visualizations(d) ==
  LET numeric_cols == VizPositions(d, "number")
      hist == head(numeric_cols, MaxHistograms)
      bars == BarColumns(d)
  IN  [k \in 1..Len(hist) |->
         Chart("histogram", <<d[hist[k]].name>>, <<d[hist[k]].name>>)]
      \o (IF Len(numeric_cols) > 1
            THEN << Chart("heatmap", <<>>, [k \in 1..Len(numeric_cols) |->
                                             d[numeric_cols[k]].name]) >>
            ELSE <<>>)
      \o [k \in 1..Len(bars) |->
           Chart("bar", <<d[bars[k]].name>>, <<d[bars[k]].name>>)]
      \o (IF Len(numeric_cols) >= 2
            THEN << Chart("scatter",
                          <<d[numeric_cols[1]].name, d[numeric_cols[2]].name>>,
                          <<d[numeric_cols[1]].name, d[numeric_cols[2]].name>>) >>
            ELSE <<>>)

Visualize ==
  /\ vstage = "charts"
  /\ visualizations' = create_visualizations(vdf)
  /\ vstage' = "done"
  /\ UNCHANGED <<vdf, hvars, pvars>>

InitViz ==
  /\ vstage = "charts"
  /\ \E n \in 0..MaxVizCols : \E kinds \in [1..n -> VizColumnKinds] :
       vdf = [j \in 1..n |->
                [name |-> VizNames[j], dtype |-> kinds[j].dtype,
                 nunique |-> kinds[j].nunique]]
  /\ visualizations = <<>>
  /\ HandlerIdle
  /\ PipelineIdle

NextViz == Visualize

SpecViz == InitViz /\ [][NextViz]_vars

(***************************************************************************)
(* Claims about the /upload handler.                                       *)
(***************************************************************************)

\* the extension of a filename in the words of the interface: the text after
\* the last dot, lower-cased, is one of csv, xls, xlsx
HasAllowedExtension(f) ==
  \E i \in 1..Len(f) :
    /\ f[i] = "."
    /\ \A j \in (i + 1)..Len(f) : f[j] # "."
    /\ Lower(SubSeq(f, i + 1, Len(f))) \in ALLOWED_EXTENSIONS

MustBeRejected(in) ==
  \/ ~in.hasFile
  \/ in.filename = <<>>
  \/ ~HasAllowedExtension(in.filename)

\* C1: a request with no `file` field, an empty filename or a filename whose
\* extension is not csv, xls or xlsx is answered with HTTP 400 and an error
\* message, and the step that answers it leaves the staging directory as it was.
C1_RejectedUploadWritesNothing ==
  [][\A r \in Requests :
       (pc[r] = "validate" /\ pc'[r] # "validate" /\ MustBeRejected(req[r]))
         => /\ pc'[r] = "done"
            /\ resp'[r].status = 400
            /\ resp'[r].error # ""
            /\ disk' = disk]_vars

\* a data.txt-like upload was answered while another request's file is staged
C1_Witness ==
  \E r \in Requests :
    /\ pc[r] = "done"
    /\ req[r].hasFile
    /\ req[r].filename = <<"a", ".", "t", "x", "t">>
    /\ resp[r].status = 400
    /\ DOMAIN disk # {}

\* the response of a request that runs alone, from an empty staging directory
SoloResponse(r, in) ==
  IF Rejection(in) # "" THEN ErrorResp(400, Rejection(in))
  ELSE
    LET filename == secure_filename(in.filename)
        d1 == Save(<<>>, filename, Body(r, in))
    IN  IF Len(RSplit(filename)) < 2 THEN ErrorResp(500, "An error occurred")
        ELSE IF ReadError(d1, filename, Lower(RSplit(filename)[2])) # ""
          THEN ErrorResp(400, ReadError(d1, filename, Lower(RSplit(filename)[2])))
          ELSE OkResp(filename, Pipeline(d1[filename]))

\* C2: whatever the interleaving of two uploads, each request's response is
\* the response it produces when it runs alone.
C2_ResponsesIndependent ==
  \A r \in Requests : pc[r] = "done" => resp[r] = SoloResponse(r, req[r])

\* C10: an upload that passed allowed_file is staged under a name that still
\* ends in the same allowed extension, so line 246 finds an extension.
C10_AcceptedNameKeepsExtension ==
  \A r \in Requests :
    pc[r] = "read" =>
      LET filename == secure_filename(req[r].filename)
      IN  /\ Len(RSplit(filename)) = 2
          /\ Lower(RSplit(filename)[2]) = Lower(RSplit(req[r].filename)[2])

(***************************************************************************)
(* Claims about clean_data.                                                *)
(***************************************************************************)
FullyMissingRow(d, i) == \A j \in 1..NCols(d) : d.rows[i][j] = NaN

FullyMissingColumn(d, j) == \A i \in 1..NRows(d) : d.rows[i][j] = NaN

HasFullyMissing(d) ==
  \/ \E i \in 1..NRows(d) : FullyMissingRow(d, i)
  \/ \E j \in 1..NCols(d) : FullyMissingColumn(d, j)

Returned == stage \in {"analyze", "interpret", "done"}

ReportEntries(kind) ==
  { cleaning_report[k] : k \in { m \in 1..Len(cleaning_report) :
                                   cleaning_report[m].kind = kind } }

\* C3, as stated: for an input with a fully-missing row or column, the
\* returned Dataset has none, and the report has a shape-change entry from
\* the input's shape to the shape of the returned Dataset.
C3_ShapeEntryMatchesReturned ==
  (Returned /\ HasFullyMissing(dataset)) =>
    /\ ~HasFullyMissing(cleaned_df)
    /\ \E e \in ReportEntries("shape") :
         e.from = Shape(dataset) /\ e.to = Shape(cleaned_df)

\* C3, amended: the removal step leaves no fully-missing row or column and
\* records a shape-change entry from the input's shape to the shape it
\* leaves; no later stage brings a fully-missing row or column back, and the
\* returned Dataset has no more rows and exactly as many columns as recorded.
C3_ShapeEntryMatchesRemoval ==
  [][/\ (stage = "drop" /\ stage' = "impute" /\ HasFullyMissing(cleaned_df)) =>
         /\ ~HasFullyMissing(cleaned_df')
         /\ cleaning_report' = <<ShapeEntry(Shape(dataset), Shape(cleaned_df'))>>
     /\ (Returned' /\ HasFullyMissing(dataset)) =>
         /\ ~HasFullyMissing(cleaned_df')
         /\ \E e \in ReportEntries("shape")' :
              /\ e.from = Shape(dataset)
              /\ e.to[1] >= NRows(cleaned_df')
              /\ e.to[2] = NCols(cleaned_df')]_vars

\* an input with a fully-missing row and a fully-missing column was
\* returned two rows and one column smaller than it came
C3_Witness ==
  /\ Returned
  /\ \E i \in 1..NRows(dataset) : FullyMissingRow(dataset, i)
  /\ \E j \in 1..NCols(dataset) : FullyMissingColumn(dataset, j)
  /\ NCols(cleaned_df) = 1
  /\ NRows(cleaned_df) = NRows(dataset) - 2
  /\ \E e \in ReportEntries("shape") : e.to[1] > NRows(cleaned_df)

\* m is the median of the non-missing values of col: the middle value of an
\* odd number of values, halfway between the two middle values otherwise
\* (cells hold twice their value, so m is compared doubled)
IsMedianOf(m, col) ==
  LET v == NonMissing(col)
      n == Len(v)
      Below(x) == Cardinality({ i \in 1..n : v[i] < x })
      AtMost(x) == Cardinality({ i \in 1..n : v[i] <= x })
      Kth(x, k) == Below(x) < k /\ k <= AtMost(x)
  IN  /\ n > 0
      /\ IF n % 2 = 1
           THEN \E i \in 1..n : v[i] = m /\ Kth(m, (n + 1) \div 2)
           ELSE \E i, k \in 1..n :
                  /\ Kth(v[i], n \div 2)
                  /\ Kth(v[k], n \div 2 + 1)
                  /\ 2 * m = v[i] + v[k]

\* C4: imputation leaves no missing entry in a numeric column that had some,
\* puts the median of the column's non-missing values in every missing
\* cell, and changes no other cell of the column.
C4_MedianImputation ==
  [][(stage = "impute" /\ stage' = "dedup") =>
       \A j \in 1..NCols(cleaned_df) :
         (cleaned_df.dtypes[j] = "number" /\ AnyMissing(cleaned_df, j)) =>
           /\ NRows(cleaned_df') = NRows(cleaned_df)
           /\ \A i \in 1..NRows(cleaned_df) :
                IF cleaned_df.rows[i][j] = NaN
                  THEN /\ cleaned_df'.rows[i][j] # NaN
                       /\ IsMedianOf(cleaned_df'.rows[i][j], Column(cleaned_df, j))
                  ELSE cleaned_df'.rows[i][j] = cleaned_df.rows[i][j]]_vars

\* a numeric column holding 0, 1, 1 and a missing cell was imputed: the
\* missing cell now holds the median 1 (stored doubled), not the mean
C4_Witness ==
  /\ stage = "dedup"
  /\ \E j \in 1..NCols(dataset) :
       /\ dataset.dtypes[j] = "number"
       /\ Column(dataset, j) = <<0, NaN, 2, 2>>
       /\ NCols(cleaned_df) = NCols(dataset)
       /\ Column(cleaned_df, j) = <<0, 2, 2, 2>>

DistinctRows(d) == { d.rows[i] : i \in 1..NRows(d) }

HasDuplicateRows(d) == Cardinality(DistinctRows(d)) < NRows(d)

AfterDedup == stage \in {"coerce", "analyze", "interpret", "done"}

\* C5, as stated: for a Dataset with duplicate rows, the number of rows after
\* deduplication is the number of distinct rows of the Dataset the pipeline
\* was given.
C5_CountOfOriginalDistinctRows ==
  (AfterDedup /\ HasDuplicateRows(dataset)) =>
    NRows(cleaned_df) = Cardinality(DistinctRows(dataset))

\* the position of row label l in d
RowAt(d, l) == CHOOSE i \in 1..NRows(d) : d.index[i] = l

\* C5, amended: deduplication leaves as many rows as its own input (the
\* Dataset after removal of empty rows and imputation) has distinct rows;
\* each surviving row is the first occurrence of its value there, and the
\* survivors keep their relative order.
C5_DedupOfImputedRows ==
  [][(stage = "dedup" /\ stage' = "coerce" /\ HasDuplicateRows(cleaned_df)) =>
       /\ NRows(cleaned_df') = Cardinality(DistinctRows(cleaned_df))
       /\ \A k \in 1..NRows(cleaned_df') :
            LET i == RowAt(cleaned_df, cleaned_df'.index[k])
            IN  /\ \E m \in 1..NRows(cleaned_df) : cleaned_df.index[m] = cleaned_df'.index[k]
                /\ cleaned_df'.rows[k] = cleaned_df.rows[i]
                /\ \A m \in 1..(i - 1) : cleaned_df.rows[m] # cleaned_df.rows[i]
       /\ \A k, m \in 1..NRows(cleaned_df') :
            k < m => RowAt(cleaned_df, cleaned_df'.index[k])
                       < RowAt(cleaned_df, cleaned_df'.index[m])]_vars

\* rows that differed only in a missing cell became equal by imputation and
\* were deduplicated: fewer rows are left than the input had distinct rows
C5_Witness ==
  /\ AfterDedup
  /\ ~HasFullyMissing(dataset)
  /\ HasDuplicateRows(dataset)
  /\ ReportEntries("duplicates") # {}
  /\ 1 < NRows(cleaned_df)
  /\ NRows(cleaned_df) < Cardinality(DistinctRows(dataset))

\* C7: every entry of the Cleaning Report stands for a change that was made:
\* a shape entry for a changed shape, a fill entry for N > 0 filled values, a
\* duplicates entry for at least one removed row.
C7_ReportEntriesAreChanges ==
  \A k \in 1..Len(cleaning_report) :
    LET e == cleaning_report[k]
    IN  /\ e.kind = "shape" => e.from # e.to
        /\ e.kind = "filled" => e.n > 0
        /\ e.kind = "duplicates" => e.n > 0

(***************************************************************************)
(* Claims about interpret_results.                                         *)
(***************************************************************************)
SentencesOf(kind) ==
  SelectSeq(interpretations, LAMBDA x : x.kind = kind)

\* the unordered pairs of distinct numeric columns with |r| > 0.7
StrongPairs ==
  { {analysis.correlations[a].col, analysis.correlations[a].row[b].col} :
      <<a, b>> \in { <<a, b>> \in (1..Len(analysis.correlations))
                                     \X (1..Len(analysis.correlations)) :
                       /\ a # b
                       /\ IsStrong(analysis.correlations[a].row[b].r) } }

\* C6: with correlations computed, every unordered pair of distinct numeric
\* columns with |r| > 0.7 is listed exactly once in the strong-correlation
\* sentence, and the 'no strong correlations' sentence is emitted exactly
\* when no pair qualifies.
C6_EachStrongPairOnce ==
  (stage = "done" /\ "correlations" \in analysis.keys) =>
    /\ (SentencesOf("no_strong_correlations") # <<>>) <=> (StrongPairs = {})
    /\ StrongPairs # {} =>
         /\ Len(SentencesOf("strong_correlations")) = 1
         /\ LET listed == SentencesOf("strong_correlations")[1].pairs
            IN  \A p \in StrongPairs :
                  Cardinality({ k \in 1..Len(listed) :
                                  {listed[k].col1, listed[k].col2} = p }) = 1

\* the numeric columns of the cleaned Dataset, in column order
NumericNames ==
  Pick(cleaned_df.columns, ColumnsOfDtype(cleaned_df, "number"))

\* the column has two or more values and they are not all equal, which is
\* when its standard deviation is defined and not zero
Spread(d, j) ==
  /\ Len(NonMissing(Column(d, j))) > 1
  /\ \E i, k \in 1..NRows(d) :
       /\ d.rows[i][j] # NaN
       /\ d.rows[k][j] # NaN
       /\ d.rows[i][j] # d.rows[k][j]

SpreadNumericNames ==
  Pick(cleaned_df.columns,
       SelectSeq(ColumnsOfDtype(cleaned_df, "number"),
                 LAMBDA j : Spread(cleaned_df, j)))

\* the columns of the mean/standard-deviation sentences that directly follow
\* the sentence naming the numeric columns (the third sentence)
RECURSIVE MeanStdRun(_)
MeanStdRun(k) ==
  IF k <= Len(interpretations) /\ interpretations[k].kind = "mean_std"
    THEN <<interpretations[k].cols[1]>> \o MeanStdRun(k + 1)
    ELSE <<>>

\* C8, as stated: with a numeric summary, the sentence naming the numeric
\* columns is directly followed by exactly one mean/standard-deviation
\* sentence for every numeric column, in column order.
C8_SentenceForEveryNumericColumn ==
  (stage = "done" /\ "numeric_summary" \in analysis.keys) =>
    /\ interpretations[3].kind = "numeric_columns"
    /\ MeanStdRun(4) = NumericNames
    /\ Len(SentencesOf("mean_std")) = Len(NumericNames)

\* C8, amended: the sentence naming the numeric columns is directly followed
\* by exactly one mean/standard-deviation sentence for every numeric column
\* whose standard deviation is defined and greater than zero, in column
\* order, and by none for the other numeric columns.
C8_SentenceForEverySpreadColumn ==
  (stage = "done" /\ "numeric_summary" \in analysis.keys) =>
    /\ interpretations[3].kind = "numeric_columns"
    /\ interpretations[3].cols = NumericNames
    /\ MeanStdRun(4) = SpreadNumericNames
    /\ Len(SentencesOf("mean_std")) = Len(SpreadNumericNames)

\* two numeric columns were interpreted, the first constant and the second
\* not: the only mean/standard-deviation sentence is the second column's
C8_Witness ==
  /\ stage = "done"
  /\ Len(NumericNames) = 2
  /\ NRows(cleaned_df) > 1
  /\ ~Spread(cleaned_df, 1)
  /\ Spread(cleaned_df, 2)
  /\ MeanStdRun(4) = <<cleaned_df.columns[2]>>

(***************************************************************************)
(* Claims about create_visualizations.                                     *)
(***************************************************************************)
IsText(d, j) == d[j].dtype = "object"

Eligible(d, j) == IsText(d, j) /\ d[j].nunique <= MaxCategories

TextBefore(d, j) == Cardinality({ k \in 1..(j - 1) : IsText(d, k) })

EligibleBefore(d, j) == Cardinality({ k \in 1..(j - 1) : Eligible(d, k) })

BarTitles == SelectSeq(visualizations, LAMBDA c : c.type = "bar")

NamesWhere(d, Test(_)) ==
  LET pos == SelectSeq(Positions(Len(d)), Test)
  IN  [k \in 1..Len(pos) |-> <<d[pos[k]].name>>]

\* C9, as stated: one bar chart for each of the first 3 eligible text
\* columns, first in column order among the eligible text columns.
C9_FirstThreeEligible ==
  vstage = "done" =>
    [k \in 1..Len(BarTitles) |-> BarTitles[k].title]
      = NamesWhere(vdf, LAMBDA j : Eligible(vdf, j) /\ EligibleBefore(vdf, j) < MaxBarCharts)

\* C9, amended: one bar chart for each eligible column among the first 3
\* text columns, in column order; an eligible text column that follows three
\* text columns is not charted, whether or not those were eligible.
C9_EligibleOfFirstThreeText ==
  vstage = "done" =>
    [k \in 1..Len(BarTitles) |-> BarTitles[k].title]
      = NamesWhere(vdf, LAMBDA j : Eligible(vdf, j) /\ TextBefore(vdf, j) < MaxBarCharts)

\* an ineligible text column came first and four eligible ones after it:
\* two bar charts were emitted
C9_Witness ==
  /\ vstage = "done"
  /\ Len(vdf) >= 5
  /\ IsText(vdf, 1) /\ ~Eligible(vdf, 1)
  /\ \A j \in 2..5 : Eligible(vdf, j)
  /\ Len(BarTitles) = 2

====
